---- MODULE Spec2Model ----
(***************************************************************************)
(* Model of the storefront overlay: the two GraphQL query clients          *)
(* (storefrontQuery in the Experience component file, shopifyFetch in      *)
(* config.ts), the fetch-on-mount effect of CardsOverlay, and the          *)
(* crossfade panel selection computed on every render of CardsOverlay.     *)
(*                                                                         *)
(* Strings are sequences of characters.  The character "P" stands for a    *)
(* protocol prefix ("http://" or "https://"), "h" for a host character,    *)
(* "t" for a token character, "/" for a slash and " " for white space.     *)
(* Real numbers in [0,1] are fractions k / OffsetDen, kept as numerators.  *)
(***************************************************************************)
EXTENDS Integers, Sequences, FiniteSets, TLC

VARIABLES
    \* ---- CardsOverlay: panels and scroll-driven rendering
    total,             \* PANELS.length
    offset,            \* scroll.offset, numerator over OffsetDen
    rendered,          \* last render: offset read, [panel index -> opacity]
    \* ---- CardsOverlay: fetch-on-mount effect
    pc,                \* position of the effect's async function
    cancelled,         \* the effect's cancellation flag
    queries,           \* per panel: state of getCollectionProducts(p)
    batch,             \* state of the Promise.all
    productsByHandle,  \* useState: handle -> product list
    error,             \* useState: error message or Null
    setCalls,          \* state setter calls made after the await
    \* ---- configuration and query clients
    envDomain,         \* VITE_SHOPIFY_STORE_DOMAIN as injected
    envToken,          \* VITE_SHOPIFY_STOREFRONT_TOKEN as injected
    client,            \* which client the current call is in
    qpc,               \* position of the current client call
    fetchCalls,        \* number of fetch() calls issued so far
    result             \* outcome of the last client call

scrollVars == <<total, offset, rendered>>
effectVars == <<pc, cancelled, queries, batch, productsByHandle, error, setCalls>>
clientVars == <<client, qpc, result>>
configVars == <<envDomain, envToken>>
vars == <<total, offset, rendered, pc, cancelled, queries, batch,
          productsByHandle, error, setCalls, envDomain, envToken,
          client, qpc, fetchCalls, result>>

----------------------------------------------------------------------------
(* Bounds *)

MaxPanels == 3     \* panel counts 1..MaxPanels
OffsetDen == 12    \* scroll offsets 0/OffsetDen .. OffsetDen/OffsetDen
MaxEnvLen == 2     \* length of an injected environment string
MaxErrors == 2     \* length of a response's errors array
MaxCalls == 2      \* client calls issued in one run

\* JavaScript values that are not strings are tagged records, so that a
\* value of any shape can be compared with any other
Undefined == [tag |-> "undefined"]
Null == [tag |-> "null"]
Array(items) == [tag |-> "array", items |-> items]
Object(fields) == [tag |-> "object"] @@ fields

\* a string member that is absent or empty (both are falsy)
NoString == ""

----------------------------------------------------------------------------
(* Panels *)

\* the collection handles of PANELS, in order (the last two are the entries
\* the source keeps commented out)
Handles == <<"hoodies-1", "shirts", "kicks", "gear">>

\* PANELS[p].collectionHandle for p in 1..total
CollectionHandle(p) == IF p <= Len(Handles) THEN Handles[p] ELSE "panel"

\* useState({}): the mapping without keys
EmptyMap == [h \in {} |-> <<>>]

----------------------------------------------------------------------------
(* Crossfade panel selection and panel content (CardsOverlay render) *)

\* pos = scroll.offset * total, as a numerator over OffsetDen
Pos(off, n) == off * n

\* i = Math.floor(pos)
FloorPos(off, n) == Pos(off, n) \div OffsetDen

\* frac = pos - i, as a numerator over OffsetDen
Frac(off, n) == Pos(off, n) - FloorPos(off, n) * OffsetDen

IsCurrent(idx, off, n) == idx = FloorPos(off, n)
IsNext(idx, off, n) == idx = FloorPos(off, n) + 1

\* the two branches of the opacity exchanged
Opacity_Swapped(idx, off, n) ==
    IF IsCurrent(idx, off, n) THEN Frac(off, n) ELSE OffsetDen - Frac(off, n)

\* opacity = isCurrent ? 1 - frac : frac
Opacity(idx, off, n) ==
    IF IsCurrent(idx, off, n) THEN OffsetDen - Frac(off, n) ELSE Frac(off, n)

\* productsByHandle[p.collectionHandle] || []
ProductsOf(idx, pbh) ==
    IF CollectionHandle(idx + 1) \in DOMAIN pbh
    THEN pbh[CollectionHandle(idx + 1)] ELSE <<>>

\* what the grid of a panel shows in place of product cards
Placeholder(idx, pbh) ==
    IF ProductsOf(idx, pbh) # <<>> THEN "none"
    ELSE IF DOMAIN pbh = {} THEN "Loading products..."
    ELSE "No products found for this collection handle."

\* PANELS.map(...): the panels that are not skipped, with their opacity and
\* content.  Panel indices are 0 .. n-1.
RenderPanels(off, n, pbh) ==
    [idx \in {j \in 0..(n - 1) : IsCurrent(j, off, n) \/ IsNext(j, off, n)}
        |-> [opacity |-> Opacity(idx, off, n),
             products |-> ProductsOf(idx, pbh),
             placeholder |-> Placeholder(idx, pbh)]]

RECURSIVE SumOver(_, _)
SumOver(f, S) ==
    IF S = {} THEN 0
    ELSE LET x == CHOOSE y \in S : TRUE IN f[x].opacity + SumOver(f, S \ {x})

OpacitySum(r) == SumOver(r, DOMAIN r)

\* what one render of CardsOverlay produces from the offset and the state
\* it reads
RenderOutput(off, n, pbh, err) ==
    [offset |-> off, banner |-> err, panels |-> RenderPanels(off, n, pbh)]

ScrollInit ==
    /\ total \in 1..MaxPanels
    /\ offset = 0
    /\ rendered = RenderOutput(0, total, EmptyMap, Null)

\* the scroll host moves the offset anywhere in [0,1]
ScrollTo(k) ==
    /\ offset' = k
    /\ UNCHANGED <<total, rendered, effectVars, configVars, clientVars, fetchCalls>>

\* CardsOverlay renders with the offset it reads at that moment
Render ==
    /\ rendered' = RenderOutput(offset, total, productsByHandle, error)
    /\ UNCHANGED <<total, offset, effectVars, configVars, clientVars, fetchCalls>>

----------------------------------------------------------------------------
(* Configuration (config.ts) *)

RECURSIVE TrimStart(_)
TrimStart(s) ==
    IF s # <<>> /\ Head(s) = " " THEN TrimStart(Tail(s)) ELSE s

RECURSIVE TrimEnd(_)
TrimEnd(s) ==
    IF s # <<>> /\ s[Len(s)] = " " THEN TrimEnd(SubSeq(s, 1, Len(s) - 1)) ELSE s

\* String.prototype.trim
Trim(s) == TrimEnd(TrimStart(s))

\* SHOPIFY_CONFIG.domain, SHOPIFY_CONFIG.storefrontAccessToken
SHOPIFY_DOMAIN == Trim(envDomain)
SHOPIFY_TOKEN == Trim(envToken)

\* USE_LIVE_DATA
USE_LIVE_DATA == SHOPIFY_DOMAIN # <<>> /\ SHOPIFY_TOKEN # <<>>

StringsOver(alphabet) ==
    UNION {[1..n -> alphabet] : n \in 0..MaxEnvLen}

DomainStrings == StringsOver({" ", "P", "h", "/"})
TokenStrings == {<<>>, <<" ">>, <<"t">>, <<" ", "t">>}

----------------------------------------------------------------------------
(* HTTP responses *)

Statuses == {200, 404, 500}

\* Response.ok
Ok(status) == status \in 200..299

\* an element of the errors array: its message, or NoString when it has none
ErrorEntries == {"X", "Y", NoString}

ErrorLists == UNION {[1..n -> ErrorEntries] : n \in 0..MaxErrors}

\* the errors member of a response object: missing, null, or an array
ErrorsValues == {Undefined, Null} \cup {Array(l) : l \in ErrorLists}

\* undefined and null are falsy; an array, even an empty one, and an object
\* are truthy
Truthy(v) == v.tag \notin {"undefined", "null"}

\* the GraphQL nodes a collection query can return
Nodes ==
    { [id |-> "gid1", title |-> "Hoodie", handle |-> "hoodie",
       featuredImage |-> Object([url |-> "img1.png"]), amount |-> "19.5", currencyCode |-> "USD"],
      [id |-> "gid2", title |-> "Shirt", handle |-> "shirt",
       featuredImage |-> Null, amount |-> "20.0", currencyCode |-> "EUR"] }

Node(i) == CHOOSE n \in Nodes : n.id = i

\* products.edges of a found collection: empty, one node, two nodes
EdgeLists == {<<>>, <<[node |-> Node("gid1")]>>,
              <<[node |-> Node("gid2")], [node |-> Node("gid1")]>>}

\* the data member: collectionByHandle is null, is absent, or has
\* products.edges
DataValues == {Object([collectionByHandle |-> Null]),
               Object([collectionByHandle |-> Undefined])}
              \cup {Object([collectionByHandle |-> Object([edges |-> e])]) :
                        e \in EdgeLists}

\* what the network can answer: a status and a body that either does not
\* parse, parses to null, or parses to an object {errors, data}
Responses ==
    {[status |-> st, body |-> b, errors |-> Undefined, data |-> Undefined] :
        st \in Statuses, b \in {"unparseable", "null"}}
    \cup
    {[status |-> st, body |-> "object", errors |-> e, data |-> d] :
        st \in Statuses, e \in ErrorsValues, d \in DataValues \cup {Undefined}}

\* JSON.stringify(value, null, 2)
Stringify(v) == [tag |-> "json", of |-> v]

\* the parsed body of an object response
Json(r) == Object([errors |-> r.errors, data |-> r.data])

\* an error message: its fixed text and what is interpolated into it
Message(text, detail) == [text |-> text, detail |-> detail]
NoDetail == [tag |-> "none"]
StatusDetail(st) == [tag |-> "status", status |-> st]

Return(v) == [kind |-> "return", value |-> v]
Throw(name, msg) == [kind |-> "throw", name |-> name, message |-> msg]

----------------------------------------------------------------------------
(* storefrontQuery (Experience component file) *)

\* the guard of storefrontQuery: true when the call throws before fetch
StorefrontConfigMissing(domain, token) == domain = <<>> \/ token = <<>>

StorefrontConfigError ==
    Throw("Error",
          Message("Missing VITE_SHOPIFY_STORE_DOMAIN or VITE_SHOPIFY_STOREFRONT_TOKEN",
                  NoDetail))

\* the condition reduced to "if (json.errors)"
StorefrontQueryResult_IgnoresStatus(r) ==
    IF r.body = "unparseable" THEN Throw("SyntaxError", Message("Unexpected token", NoDetail))
    ELSE IF r.body = "null"
        THEN Throw("TypeError", Message("Cannot read properties of null", NoDetail))
    ELSE IF Truthy(r.errors)
        THEN Throw("Error", Message("Storefront API error: ", Stringify(r.errors)))
    ELSE Return(r.data)

\* storefrontQuery from "const json = await res.json()" to its return
StorefrontQueryResult(r) ==
    IF r.body = "unparseable" THEN Throw("SyntaxError", Message("Unexpected token", NoDetail))
    ELSE IF r.body = "null"
        \* json is null: json.errors throws, in the condition when res.ok
        \* holds and in the message when it does not
        THEN Throw("TypeError", Message("Cannot read properties of null", NoDetail))
    ELSE IF ~Ok(r.status) \/ Truthy(r.errors)
        THEN Throw("Error",
                   Message("Storefront API error: ",
                           Stringify(IF Truthy(r.errors) THEN r.errors ELSE Json(r))))
    ELSE Return(r.data)

----------------------------------------------------------------------------
(* getCollectionProducts *)

\* the object built from one node by the map in getCollectionProducts
ShapeNode(node) ==
    [id |-> node.id,
     title |-> node.title,
     handle |-> node.handle,
     imageUrl |-> IF node.featuredImage.tag = "object"
                  THEN node.featuredImage.url ELSE NoString,
     price |-> <<node.amount, " ", node.currencyCode>>]

\* the function without "if (!col) return []"
ShapeCollection_NoNullCheck(data) ==
    IF data.tag # "object"
        THEN Throw("TypeError", Message("Cannot read properties of undefined", NoDetail))
    ELSE IF ~Truthy(data.collectionByHandle)
        THEN Throw("TypeError", Message("Cannot read properties of null", NoDetail))
    ELSE Return([k \in 1..Len(data.collectionByHandle.edges)
                    |-> ShapeNode(data.collectionByHandle.edges[k].node)])

\* getCollectionProducts after "await storefrontQuery(...)" returned data
ShapeCollection(data) ==
    IF data.tag # "object"
        THEN Throw("TypeError", Message("Cannot read properties of undefined", NoDetail))
    ELSE IF ~Truthy(data.collectionByHandle) THEN Return(<<>>)
    ELSE Return([k \in 1..Len(data.collectionByHandle.edges)
                    |-> ShapeNode(data.collectionByHandle.edges[k].node)])

\* getCollectionProducts from the response of its storefrontQuery call on
getCollectionProducts(r) ==
    IF StorefrontQueryResult(r).kind = "throw" THEN StorefrontQueryResult(r)
    ELSE ShapeCollection(StorefrontQueryResult(r).value)

----------------------------------------------------------------------------
(* shopifyFetch (config.ts) *)

\* .replace(/^https?:\/\//, '')
StripProtocol(s) == IF s # <<>> /\ Head(s) = "P" THEN Tail(s) ELSE s

\* .replace(/\/+$/, '')
RECURSIVE StripTrailingSlashes(_)
StripTrailingSlashes(s) ==
    IF s # <<>> /\ s[Len(s)] = "/"
    THEN StripTrailingSlashes(SubSeq(s, 1, Len(s) - 1)) ELSE s

\* the guard without its test of the token
BuildEndpointThrows_DomainOnly(domain, token) ==
    StripTrailingSlashes(StripProtocol(domain)) = <<>>

\* the guard of buildEndpoint: true when it throws
BuildEndpointThrows(domain, token) ==
    StripTrailingSlashes(StripProtocol(domain)) = <<>> \/ token = <<>>

\* buildEndpoint
buildEndpoint(domain, token) ==
    IF BuildEndpointThrows(domain, token)
    THEN Throw("Error", Message("Missing Shopify configuration (domain or token)", NoDetail))
    ELSE Return([host |-> StripTrailingSlashes(StripProtocol(domain))])

\* json?.errors?.[0]?.message
FirstErrorMessage(r) ==
    IF r.body # "object" THEN NoString
    ELSE IF ~Truthy(r.errors) THEN NoString
    ELSE IF r.errors.items = <<>> THEN NoString
    ELSE r.errors.items[1]

\* shopifyFetch from "json = await response.json()" to its return
ShopifyFetchResult(r) ==
    IF r.body = "unparseable"
        THEN Throw("Error", Message("Invalid response from Shopify", NoDetail))
    ELSE IF ~Ok(r.status)
        THEN Throw("Error",
                   IF FirstErrorMessage(r) # NoString
                   THEN Message(FirstErrorMessage(r), NoDetail)
                   ELSE Message("Shopify API error (", StatusDetail(r.status)))
    ELSE IF r.body = "null"
        THEN Throw("TypeError", Message("Cannot read properties of null", NoDetail))
    ELSE IF Truthy(r.errors)
        THEN Throw("Error",
                   IF FirstErrorMessage(r) # NoString
                   THEN Message(FirstErrorMessage(r), NoDetail)
                   ELSE Message("Shopify API error", NoDetail))
    ELSE Return(r.data)

\* fetch() itself rejects (no response)
NetworkError == Throw("TypeError", Message("Failed to fetch", NoDetail))

----------------------------------------------------------------------------
(* Client calls as steps *)

ClientInit ==
    /\ client = "none"
    /\ qpc = "idle"
    /\ fetchCalls = 0
    /\ result = [kind |-> "none"]

\* storefrontQuery up to "await fetch(...)"
CallStorefrontQuery ==
    /\ qpc \in {"idle", "done"}
    /\ fetchCalls < MaxCalls
    /\ client' = "storefrontQuery"
    /\ IF StorefrontConfigMissing(SHOPIFY_DOMAIN, SHOPIFY_TOKEN)
       THEN /\ result' = StorefrontConfigError
            /\ qpc' = "done"
            /\ UNCHANGED fetchCalls
       ELSE /\ result' = [kind |-> "none"]
            /\ qpc' = "fetching"
            /\ fetchCalls' = fetchCalls + 1
    /\ UNCHANGED <<scrollVars, effectVars, configVars>>

\* getCollectionProducts up to the "await fetch(...)" of its storefrontQuery
CallGetCollectionProducts ==
    /\ qpc \in {"idle", "done"}
    /\ fetchCalls < MaxCalls
    /\ client' = "getCollectionProducts"
    /\ IF StorefrontConfigMissing(SHOPIFY_DOMAIN, SHOPIFY_TOKEN)
       THEN /\ result' = StorefrontConfigError
            /\ qpc' = "done"
            /\ UNCHANGED fetchCalls
       ELSE /\ result' = [kind |-> "none"]
            /\ qpc' = "fetching"
            /\ fetchCalls' = fetchCalls + 1
    /\ UNCHANGED <<scrollVars, effectVars, configVars>>

\* shopifyFetch up to "await fetch(...)"
CallShopifyFetch ==
    /\ qpc \in {"idle", "done"}
    /\ fetchCalls < MaxCalls
    /\ client' = "shopifyFetch"
    /\ IF buildEndpoint(SHOPIFY_DOMAIN, SHOPIFY_TOKEN).kind = "throw"
       THEN /\ result' = buildEndpoint(SHOPIFY_DOMAIN, SHOPIFY_TOKEN)
            /\ qpc' = "done"
            /\ UNCHANGED fetchCalls
       ELSE /\ result' = [kind |-> "none"]
            /\ qpc' = "fetching"
            /\ fetchCalls' = fetchCalls + 1
    /\ UNCHANGED <<scrollVars, effectVars, configVars>>

\* the response arrives and the rest of the client runs
Respond(r) ==
    /\ qpc = "fetching"
    /\ qpc' = "done"
    /\ result' = [response |-> r] @@
                 (CASE client = "storefrontQuery" -> StorefrontQueryResult(r)
                    [] client = "getCollectionProducts" -> getCollectionProducts(r)
                    [] OTHER -> ShopifyFetchResult(r))
    /\ UNCHANGED <<scrollVars, effectVars, configVars, client, fetchCalls>>

\* fetch rejects: the rejection propagates out of the client
FetchRejects ==
    /\ qpc = "fetching"
    /\ qpc' = "done"
    /\ result' = NetworkError
    /\ UNCHANGED <<scrollVars, effectVars, configVars, client, fetchCalls>>

----------------------------------------------------------------------------
(* CardsOverlay: the fetch-on-mount effect *)

Pending == [st |-> "pending", err |-> [kind |-> "none"]]

Query(st, products) == [st |-> st, products |-> products]

\* Promise.allSettled in place of Promise.all: fulfils when every input
\* has settled, whatever its outcome
PromiseAll_AllSettled(b, qs, outcome) ==
    IF b.st # "pending" THEN b
    ELSE IF \A p \in DOMAIN qs : qs[p].st \in {"fulfilled", "rejected"}
        THEN [st |-> "fulfilled", err |-> [kind |-> "none"]]
    ELSE b

\* Promise.all: rejects with the first rejection, fulfils when every input
\* has fulfilled
PromiseAll(b, qs, outcome) ==
    IF b.st # "pending" THEN b
    ELSE IF outcome.kind = "throw" THEN [st |-> "rejected", err |-> outcome]
    ELSE IF \A p \in DOMAIN qs : qs[p].st = "fulfilled"
        THEN [st |-> "fulfilled", err |-> [kind |-> "none"]]
    ELSE b

\* the loop skipping the entries whose product list is empty
BuildMap_SkipEmpty(qs) ==
    [h \in {CollectionHandle(p) : p \in {q \in DOMAIN qs : qs[q].products # <<>>}} |->
        LET last == CHOOSE p \in DOMAIN qs :
                        /\ CollectionHandle(p) = h
                        /\ \A q \in DOMAIN qs : CollectionHandle(q) = h => q <= p
        IN qs[last].products]

\* "for (const [handle, products] of entries) map[handle] = products"
BuildMap(qs) ==
    [h \in {CollectionHandle(p) : p \in DOMAIN qs} |->
        LET last == CHOOSE p \in DOMAIN qs :
                        /\ CollectionHandle(p) = h
                        /\ \A q \in DOMAIN qs : CollectionHandle(q) = h => q <= p
        IN qs[last].products]

\* e?.message || "Failed to load products"
ErrorText(e) ==
    IF e.message.text = NoString THEN Message("Failed to load products", NoDetail)
    ELSE e.message

\* the commit without its test of the flag
CommitAllowed_Always(c) == TRUE

\* "if (cancelled) return" guarding the commit
CommitAllowed(c) == ~c

\* "if (!cancelled)" guarding setError in the catch block
ReportAllowed(c) == ~c

EffectInit ==
    /\ pc = "init"
    /\ cancelled = FALSE
    /\ queries = [p \in 1..total |-> Query("idle", <<>>)]
    /\ batch = Pending
    /\ productsByHandle = EmptyMap
    /\ error = Null
    /\ setCalls = [products |-> 0, error |-> 0]

\* the effect runs after the first render: setError(null), then every
\* panel's getCollectionProducts runs up to its first await
RunEffect ==
    /\ pc = "init"
    /\ pc' = "await"
    /\ cancelled' = FALSE
    /\ error' = Null
    /\ IF StorefrontConfigMissing(SHOPIFY_DOMAIN, SHOPIFY_TOKEN)
       THEN /\ queries' = [p \in 1..total |-> Query("rejected", <<>>)]
            /\ batch' = [st |-> "rejected", err |-> StorefrontConfigError]
            /\ UNCHANGED fetchCalls
       ELSE /\ queries' = [p \in 1..total |-> Query("fetching", <<>>)]
            /\ batch' = Pending
            /\ fetchCalls' = fetchCalls + total
    /\ UNCHANGED <<scrollVars, configVars, clientVars, productsByHandle, setCalls>>

\* the query of panel p settles with outcome o
Settle(p, o) ==
    LET qs == [queries EXCEPT ![p] =
                  IF o.kind = "throw" THEN Query("rejected", <<>>)
                  ELSE Query("fulfilled", o.value)]
    IN /\ queries' = qs
       /\ batch' = PromiseAll(batch, qs, o)

\* the responses the effect is exercised with: those of Responses whose
\* errors array has at most one element
PanelResponses ==
    {r \in Responses : r.errors.tag = "array" => Len(r.errors.items) <= 1}

\* what getCollectionProducts makes of them
PanelOutcomes == {getCollectionProducts(r) : r \in PanelResponses}

\* the response of panel p's request arrives and getCollectionProducts
\* settles with outcome o
PanelResponds(p, o) ==
    /\ pc # "init"
    /\ queries[p].st = "fetching"
    /\ Settle(p, o)
    /\ UNCHANGED <<scrollVars, configVars, clientVars, fetchCalls,
                   pc, cancelled, productsByHandle, error, setCalls>>

\* the request of panel p fails in the network
PanelFetchRejects(p) ==
    /\ pc # "init"
    /\ queries[p].st = "fetching"
    /\ Settle(p, NetworkError)
    /\ UNCHANGED <<scrollVars, configVars, clientVars, fetchCalls,
                   pc, cancelled, productsByHandle, error, setCalls>>

\* the async function resumes after "await Promise.all(...)"; a state
\* update makes CardsOverlay render again
Resume ==
    /\ pc = "await"
    /\ batch.st # "pending"
    /\ IF batch.st = "fulfilled"
       THEN IF CommitAllowed(cancelled)
            THEN /\ productsByHandle' = BuildMap(queries)
                 /\ setCalls' = [setCalls EXCEPT !.products = @ + 1]
                 /\ pc' = "committed"
                 /\ UNCHANGED error
            ELSE /\ pc' = "returned"
                 /\ UNCHANGED <<productsByHandle, error, setCalls>>
       ELSE IF ReportAllowed(cancelled)
            THEN /\ error' = ErrorText(batch.err)
                 /\ setCalls' = [setCalls EXCEPT !.error = @ + 1]
                 /\ pc' = "caught"
                 /\ UNCHANGED productsByHandle
            ELSE /\ pc' = "swallowed"
                 /\ UNCHANGED <<productsByHandle, error, setCalls>>
    /\ rendered' = IF setCalls' # setCalls
                   THEN RenderOutput(offset, total, productsByHandle', error')
                   ELSE rendered
    /\ UNCHANGED <<total, offset, configVars, clientVars, fetchCalls,
                   cancelled, queries, batch>>

\* the effect's cleanup
Unmount ==
    /\ pc # "init"
    /\ ~cancelled
    /\ cancelled' = TRUE
    /\ UNCHANGED <<scrollVars, configVars, clientVars, fetchCalls,
                   pc, queries, batch, productsByHandle, error, setCalls>>

----------------------------------------------------------------------------
(* Specifications *)

\* the query clients under every configuration
ClientSpecInit ==
    /\ envDomain \in DomainStrings
    /\ envToken \in TokenStrings
    /\ ClientInit
    /\ total = 1 /\ offset = 0 /\ rendered = RenderOutput(0, 1, EmptyMap, Null)
    /\ EffectInit

ClientNext ==
    \/ CallStorefrontQuery
    \/ CallGetCollectionProducts
    \/ CallShopifyFetch
    \/ \E r \in Responses : Respond(r)
    \/ FetchRejects

ClientSpec == ClientSpecInit /\ [][ClientNext]_vars

\* the overlay: scrolling, rendering and the fetch effect
OverlayInit ==
    /\ envDomain \in {<<>>, <<"h">>}
    /\ envToken \in {<<>>, <<"t">>}
    /\ ClientInit
    /\ ScrollInit
    /\ EffectInit

EffectNext ==
    \/ RunEffect
    \/ \E p \in 1..total, o \in PanelOutcomes : PanelResponds(p, o)
    \/ \E p \in 1..total : PanelFetchRejects(p)
    \/ Resume
    \/ Unmount

EffectSpec == OverlayInit /\ [][EffectNext]_vars

ScrollNext ==
    \/ \E k \in 0..OffsetDen : ScrollTo(k)
    \/ Render

ScrollSpec == OverlayInit /\ [][ScrollNext]_vars

TypeOK ==
    /\ total \in 1..MaxPanels
    /\ offset \in 0..OffsetDen
    /\ pc \in {"init", "await", "committed", "returned", "caught", "swallowed"}
    /\ cancelled \in BOOLEAN
    /\ qpc \in {"idle", "fetching", "done"}
    /\ fetchCalls \in Nat

----------------------------------------------------------------------------
(* Properties of the crossfade selection, under ScrollSpec *)

Selected == DOMAIN rendered.panels
LastPanel == total - 1

\* C1: at every scroll offset in [0,1] and for every panel count, one or two
\* panels are selected for rendering and the opacities of the selected
\* panels sum to exactly 1.
C1_OneOrTwoSelectedSumOne ==
    /\ Cardinality(Selected) \in {1, 2}
    /\ OpacitySum(rendered.panels) = OffsetDen

\* C6 as stated: at offset 0 panel 0 is rendered with opacity 1 and no other
\* panel passes the isCurrent/isNext selection.
C6_OnlyPanelZeroAtOffsetZero ==
    rendered.offset = 0 =>
        /\ Selected = {0}
        /\ rendered.panels[0].opacity = OffsetDen

\* C6 as amended: at offset 0 panel 0 is rendered with opacity 1; the only
\* other panel that passes the selection is panel 1, which passes it whenever
\* it exists, and it is rendered with opacity 0.
C6_PanelZeroOpaqueNextTransparent ==
    rendered.offset = 0 =>
        /\ 0 \in Selected
        /\ rendered.panels[0].opacity = OffsetDen
        /\ Selected \subseteq {0, 1}
        /\ (total >= 2 => 1 \in Selected)
        /\ \A idx \in Selected \ {0} : rendered.panels[idx].opacity = 0

\* a render at offset 0, after scrolling away, of an overlay with a panel 1
C6_Witness ==
    /\ rendered.offset = 0
    /\ offset # 0
    /\ 1 \in Selected

\* C7: at offset 1 exactly the last panel is rendered and its opacity is 1.
C7_LastPanelOpaqueAtOffsetOne ==
    rendered.offset = OffsetDen =>
        /\ Selected = {LastPanel}
        /\ rendered.panels[LastPanel].opacity = OffsetDen

----------------------------------------------------------------------------
(* Properties of the fetch effect, under EffectSpec *)

PanelHandles == {CollectionHandle(p) : p \in 1..total}
SomeQueryRejected == \E p \in 1..total : queries[p].st = "rejected"
AllQueriesFulfilled == \A p \in 1..total : queries[p].st = "fulfilled"

\* C2: once the cleanup has set cancelled, no step changes productsByHandle
\* or error, and no state setter is called: whatever the order of the
\* unmount and of the settling of the batch, the state keeps the values it
\* had at the unmount.
C2_NoUpdateAfterUnmount ==
    [][cancelled =>
          /\ productsByHandle' = productsByHandle
          /\ error' = error
          /\ setCalls' = setCalls]_vars

\* the async function resumed after the unmount, on a batch that fulfilled
C2_Witness ==
    /\ cancelled
    /\ pc = "returned"
    /\ batch.st = "fulfilled"

\* C3: when one of the panel queries has failed, no panel data is applied:
\* productsByHandle stays the empty mapping of the first render, the results
\* of the queries that succeeded included, setProductsByHandle is never
\* called, and the error is set at most once: exactly once, to one message,
\* when the function resumes while still mounted, and never when it resumes
\* after the unmount.
C3_FailedQueryAppliesNothing ==
    SomeQueryRejected =>
        /\ productsByHandle = EmptyMap
        /\ setCalls.products = 0
        /\ pc \in {"await", "caught", "swallowed"}
        /\ (pc = "await" => setCalls.error = 0 /\ error = Null)
        /\ (pc = "caught" => setCalls.error = 1 /\ error = batch.err.message)
        /\ (pc = "swallowed" => cancelled /\ setCalls.error = 0 /\ error = Null)

\* one query failed, another returned products, and the error was reported
C3_Witness ==
    /\ pc = "caught"
    /\ ~cancelled
    /\ SomeQueryRejected
    /\ \E p \in 1..total : queries[p].st = "fulfilled" /\ queries[p].products # <<>>

\* C4: productsByHandle is the initial empty mapping or has an entry for the
\* collection handle of every configured panel, and it changes only in one
\* step: from the empty mapping to the mapping built from the results of all
\* the queries, once all of them have succeeded.
C4_WholesaleReplacement ==
    /\ [](productsByHandle = EmptyMap \/ DOMAIN productsByHandle = PanelHandles)
    /\ [][productsByHandle' # productsByHandle =>
              /\ AllQueriesFulfilled
              /\ setCalls.products = 0
              /\ setCalls'.products = 1
              /\ \A p \in 1..total :
                     productsByHandle'[CollectionHandle(p)] = queries[p].products]_vars

\* the mapping was committed for several panels, one of them without products
C4_Witness ==
    /\ pc = "committed"
    /\ total >= 2
    /\ DOMAIN productsByHandle = PanelHandles
    /\ \E h \in PanelHandles : productsByHandle[h] = <<>>
    /\ \E h \in PanelHandles : productsByHandle[h] # <<>>

----------------------------------------------------------------------------
(* Properties of the query clients, under ClientSpec *)

HasResponse == qpc = "done" /\ "response" \in DOMAIN result

ConfigErrorOf(c) ==
    IF c \in {"storefrontQuery", "getCollectionProducts"}
    THEN "Missing VITE_SHOPIFY_STORE_DOMAIN or VITE_SHOPIFY_STOREFRONT_TOKEN"
    ELSE "Missing Shopify configuration (domain or token)"

\* C5: when the configured domain or the configured token is empty, no call
\* of storefrontQuery or shopifyFetch ever issues a fetch, and every call
\* ends by throwing the client's configuration error.
C5_NoFetchWithoutConfig ==
    (SHOPIFY_DOMAIN = <<>> \/ SHOPIFY_TOKEN = <<>>) =>
        /\ fetchCalls = 0
        /\ qpc # "fetching"
        /\ (qpc = "done" =>
               /\ result.kind = "throw"
               /\ result.message.text = ConfigErrorOf(client))

\* shopifyFetch was called with a domain and no token
C5_Witness ==
    /\ SHOPIFY_DOMAIN # <<>>
    /\ SHOPIFY_TOKEN = <<>>
    /\ envToken # <<>>
    /\ qpc = "done"
    /\ client = "shopifyFetch"

\* the three failure conditions of a response
HttpFailure(r) == ~Ok(r.status)
ParseFailure(r) == r.body = "unparseable"
ApiFailure(r) == r.body = "object" /\ r.errors.tag = "array" /\ r.errors.items # <<>>

\* the three failures the claim tells apart
CarriesStatus(res, r) ==
    res.kind = "throw" /\ res.message.detail = StatusDetail(r.status)
IsParseError(res) ==
    /\ res.kind = "throw"
    /\ \/ res.name = "SyntaxError"
       \/ res.message.text = "Invalid response from Shopify"
CarriesErrorList(res, r) ==
    res.kind = "throw" /\ res.message.detail = Stringify(r.errors)

\* C8 as stated: each failure condition of the response yields its own
\* failure: a non-2xx status an error carrying the status, an unparseable body
\* a parse failure, a populated errors array an error carrying the list.
C8_EachConditionItsOwnFailure ==
    HasResponse /\ client \in {"storefrontQuery", "shopifyFetch"} =>
        LET r == result.response IN
        /\ (HttpFailure(r) /\ ~ParseFailure(r) /\ ~ApiFailure(r)
                => CarriesStatus(result, r))
        /\ (ParseFailure(r) /\ ~HttpFailure(r) => IsParseError(result))
        /\ (ApiFailure(r) /\ ~HttpFailure(r) => CarriesErrorList(result, r))

\* C8 as amended.  For a body that does not parse, both clients throw a parse
\* failure whatever the status.  For a body that parses to an object:
\* storefrontQuery throws the same "Storefront API error" for a non-2xx status
\* and for a truthy errors member, carrying the serialized errors member when
\* it is truthy and the serialized body otherwise, never the status;
\* shopifyFetch throws for a non-2xx status an error carrying the message of
\* the first API error when it has one and the status otherwise, and for a 2xx
\* status with a truthy errors member the message of the first API error, or
\* "Shopify API error" when it has none.  Otherwise the data is returned.
C8_FailuresAsThrown ==
    (/\ HasResponse
     /\ client \in {"storefrontQuery", "shopifyFetch"}
     /\ result.response.body # "null") =>
        LET r == result.response
            first == IF r.body = "object" /\ r.errors.tag = "array"
                        /\ r.errors.items # <<>>
                     THEN r.errors.items[1] ELSE NoString
            listed == r.body = "object" /\ r.errors.tag = "array"
        IN
        IF ParseFailure(r) THEN IsParseError(result) /\ result.message.detail = NoDetail
        ELSE IF client = "storefrontQuery" THEN
            IF HttpFailure(r) \/ listed
            THEN /\ result.kind = "throw"
                 /\ result.message.text = "Storefront API error: "
                 /\ result.message.detail =
                        [tag |-> "json", of |-> IF listed THEN r.errors
                                                ELSE Object([errors |-> r.errors,
                                                             data |-> r.data])]
            ELSE result.kind = "return" /\ result.value = r.data
        ELSE
            IF HttpFailure(r)
            THEN /\ result.kind = "throw"
                 /\ IF first # NoString
                    THEN result.message = Message(first, NoDetail)
                    ELSE result.message.detail = StatusDetail(r.status)
            ELSE IF listed
            THEN /\ result.kind = "throw"
                 /\ result.message =
                        Message(IF first # NoString THEN first ELSE "Shopify API error",
                                NoDetail)
            ELSE result.kind = "return" /\ result.value = r.data

\* storefrontQuery got a non-2xx response whose body is an object without
\* errors
C8_Witness ==
    /\ HasResponse
    /\ client = "storefrontQuery"
    /\ HttpFailure(result.response)
    /\ result.response.body = "object"
    /\ ~Truthy(result.response.errors)

----------------------------------------------------------------------------
(* Properties of getCollectionProducts, under ClientSpec *)

\* the storefrontQuery call of getCollectionProducts returned a data object
QuerySucceeded(r) ==
    /\ Ok(r.status)
    /\ r.body = "object"
    /\ ~Truthy(r.errors)
    /\ r.data.tag = "object"

\* C9: when its query succeeds, getCollectionProducts returns the empty list,
\* and does not throw, if collectionByHandle is null or absent or the
\* collection has no edges; otherwise it returns one view-model per edge, in
\* the order of the edges.
C9_EmptyListOrOnePerEdge ==
    (/\ HasResponse
     /\ client = "getCollectionProducts"
     /\ QuerySucceeded(result.response)) =>
        LET col == result.response.data.collectionByHandle IN
        /\ result.kind = "return"
        /\ IF col.tag # "object" THEN result.value = <<>>
           ELSE /\ Len(result.value) = Len(col.edges)
                /\ (col.edges = <<>> => result.value = <<>>)
                /\ \A k \in 1..Len(col.edges) :
                       /\ result.value[k].id = col.edges[k].node.id
                       /\ result.value[k].handle = col.edges[k].node.handle
                       /\ result.value[k].title = col.edges[k].node.title

\* getCollectionProducts was answered with a null collectionByHandle
C9_Witness ==
    /\ HasResponse
    /\ client = "getCollectionProducts"
    /\ QuerySucceeded(result.response)
    /\ result.response.data.collectionByHandle = Null

----------------------------------------------------------------------------
(* Properties of the placeholders, under EffectSpec *)

\* the async function of the effect ran to its end on a mounted overlay
FetchCompleted == pc \in {"committed", "caught"}

\* C10: a rendered panel without products shows "Loading products..." exactly
\* while the on-mount fetch has not completed, and the "no products found"
\* text once it has completed, whether it succeeded or failed.
C10_PlaceholderTellsCompletion ==
    \A idx \in Selected :
        rendered.panels[idx].products = <<>> =>
            rendered.panels[idx].placeholder =
                IF FetchCompleted
                THEN "No products found for this collection handle."
                ELSE "Loading products..."

====
